---- MODULE Spec2Model ----
(***************************************************************************)
(* The V2G communication session core of iso15118:                         *)
(*   SessionStateMachine / V2GCommunicationSession                         *)
(*       (src/iso15118/shared/comm_session.py)                             *)
(*   StateSECC.check_msg / StateSECC.stop_state_machine                    *)
(*       (src/iso15118/secc/states/secc_state.py)                          *)
(* One session is one single-threaded cooperative task; pc is the position *)
(* of that task (the suspension points of rcv_loop, send and stop, plus    *)
(* the return of process_message).                                         *)
(***************************************************************************)
EXTENDS Integers, Sequences, FiniteSets, TLC

VARIABLES
    protocol,             \* comm_session.protocol
    session_id,           \* comm_session.session_id
    chosen_protocol,      \* comm_session.chosen_protocol
    selected_services,    \* comm_session.selected_services
    selected_energy_mode, \* comm_session.selected_energy_mode
    selected_schedule,    \* comm_session.selected_schedule
    stop_reason,          \* comm_session.stop_reason (NoReason = None)
    last_message_sent,    \* comm_session.last_message_sent (NoFrame = None)
    started,              \* comm_session._started
    start_state,          \* SessionStateMachine.start_state (a state class)
    current_state,        \* SessionStateMachine.current_state (a state object)
    timeout,              \* local variable timeout of rcv_loop
    sending,              \* parameter message of a send() awaiting its drain
    pc,                   \* position of the session task
    pm,                   \* how the last process_message call ended
    exit_path,            \* the exit of rcv_loop that was taken
    wire,                 \* frames written to the peer, in order
    queue,                \* items put on session_handler_queue, in order
    writer_closed,        \* writer.close() was called
    save_calls,           \* number of save_session_info() calls
    stop_log,             \* steps of stop() that were performed, in order
    nrecv,                \* number of chunks read from the peer
    go_calls,             \* number of go_to_next_state() calls
    resumes,              \* number of resume() calls
    iter,                 \* what happened while the last chunk was processed
    call                  \* a function applied on its own: arguments, result

vars == << protocol, session_id, chosen_protocol, selected_services,
           selected_energy_mode, selected_schedule, stop_reason,
           last_message_sent, started, start_state, current_state, timeout,
           sending, pc, pm, exit_path, wire, queue, writer_closed,
           save_calls, stop_log, nrecv, go_calls, resumes, iter, call >>

(***************************************************************************)
(* Bounds of the model.                                                    *)
(***************************************************************************)
\* chunks one session reads from the peer
MaxMsgs == 3
\* resume() calls on one session
MaxResumes == 1

(***************************************************************************)
(* Values.                                                                 *)
(***************************************************************************)
Protocols == {"UNKNOWN", "DIN_SPEC_70121", "ISO_15118_2", "ISO_15118_20"}

ConcreteProtocols == Protocols \ {"UNKNOWN"}

\* state classes (the state catalogue is outside the core)
StateNames == {"SupportedAppProtocol", "SessionSetup"}

\* values of State.next_state: None, the sentinels, or a state class
NextStates == {"None", "Terminate", "Pause"} \cup StateNames

\* session ids carried in message headers; StoredIds are those a state stores
HeaderIds == {"AABBCCDD11223344", "0000000000000000"}

StoredIds == {"AABBCCDD11223344"}

\* wire variants of a decoded message
WireVariants ==
    {"SupportedAppProtocolReq", "SupportedAppProtocolRes",
     "V2GMessageV2", "V2GMessageV20"}

V2Bodies == {"SessionSetupReqV2", "ServiceDiscoveryReqV2"}

V20Requests == {"SessionSetupReqV20", "AuthorizationSetupReqV20"}

V20Responses == {"SessionSetupResV20"}

Msg(kind, body, request, sid) ==
    [kind |-> kind, body |-> body, request |-> request, session_id |-> sid]

\* decoded_message = None
NoMessage == Msg("None", "None", FALSE, "")

SAPMessages ==
    {Msg("SupportedAppProtocolReq", "SupportedAppProtocolReq", TRUE, ""),
     Msg("SupportedAppProtocolRes", "SupportedAppProtocolRes", FALSE, "")}

V2Messages == {Msg("V2GMessageV2", b, TRUE, s) : b \in V2Bodies, s \in HeaderIds}

V20Messages ==
    {Msg("V2GMessageV20", b, b \in V20Requests, s) :
        b \in V20Requests \cup V20Responses, s \in HeaderIds}

Messages == SAPMessages \cup V2Messages \cup V20Messages

\* a V2GTP frame staged or sent: the body it carries, its response code with
\* the enum the code is taken from, and the chunk during whose handling it
\* was staged
Frame(body, code, family, n) ==
    [body |-> body, code |-> code, family |-> family, stagedAt |-> n]

\* next_v2gtp_msg = None, last_message_sent = None
NoFrame == Frame("None", "None", "None", 0)

\* cites: the frame whose text the reason quotes (NoFrame: none)
StopNotification(successful, reason) ==
    [set |-> TRUE, successful |-> successful, reason |-> reason,
     cites |-> NoFrame]

\* stop_reason = None
NoReason ==
    [set |-> FALSE, successful |-> FALSE, reason |-> "None", cites |-> NoFrame]

\* timeout passed to start()
StartTimeout == 1

\* next_msg_timeout a state passes to create_next_message
StateTimeout == 2

\* next_msg_timeout of the negative response of stop_state_machine
FailedTimeout == 0

\* a state object right after its construction
NewState(name) ==
    [name |-> name, next_state |-> "None", next_v2gtp_msg |-> NoFrame,
     next_msg_timeout |-> 0]

\* State.create_next_message(next_state, next_msg, next_msg_timeout, namespace)
create_next_message(cs, next, frame, t) ==
    [cs EXCEPT !.next_state = next, !.next_v2gtp_msg = frame,
               !.next_msg_timeout = t]

(***************************************************************************)
(* SessionStateMachine.get_exi_ns                                          *)
(***************************************************************************)
\* the names of states of an ISO 15118-20 session, the AC, DC, WPT and ACDP
\* families among them
V20StateNames ==
    {"SessionSetup", "AuthorizationSetup", "ServiceDiscovery",
     "ScheduleExchange", "PowerDelivery", "SessionStop",
     "ACChargeParameterDiscovery", "ACChargeLoop",
     "DCChargeParameterDiscovery", "DCCableCheck",
     "WPTFinePositioning", "WPTChargeLoop",
     "ACDPVehiclePositioning", "ACDPConnect"}

\* str(current_state): the first four characters of the name
Letters(name) ==
    CASE name = "SupportedAppProtocol"       -> <<"S", "u", "p", "p">>
      [] name = "SessionSetup"               -> <<"S", "e", "s", "s">>
      [] name = "AuthorizationSetup"         -> <<"A", "u", "t", "h">>
      [] name = "ServiceDiscovery"           -> <<"S", "e", "r", "v">>
      [] name = "ScheduleExchange"           -> <<"S", "c", "h", "e">>
      [] name = "PowerDelivery"              -> <<"P", "o", "w", "e">>
      [] name = "SessionStop"                -> <<"S", "e", "s", "s">>
      [] name = "ACChargeParameterDiscovery" -> <<"A", "C", "C", "h">>
      [] name = "ACChargeLoop"               -> <<"A", "C", "C", "h">>
      [] name = "DCChargeParameterDiscovery" -> <<"D", "C", "C", "h">>
      [] name = "DCCableCheck"               -> <<"D", "C", "C", "a">>
      [] name = "WPTFinePositioning"         -> <<"W", "P", "T", "F">>
      [] name = "WPTChargeLoop"              -> <<"W", "P", "T", "C">>
      [] name = "ACDPVehiclePositioning"     -> <<"A", "C", "D", "P">>
      [] name = "ACDPConnect"                -> <<"A", "C", "D", "P">>

startswith(s, prefix) ==
    /\ Len(prefix) <= Len(s)
    /\ \A i \in 1..Len(prefix) : s[i] = prefix[i]

\* get_exi_ns with the tests on the state name before those on the protocol
get_exi_ns_state_first(p, name) ==
    IF startswith(Letters(name), <<"A", "C">>) THEN "ISO_V20_AC"
    ELSE IF startswith(Letters(name), <<"D", "C">>) THEN "ISO_V20_DC"
    ELSE IF startswith(Letters(name), <<"W", "P", "T">>) THEN "ISO_V20_WPT"
    ELSE IF p = "UNKNOWN" THEN "SAP"
    ELSE IF p = "ISO_15118_2" THEN "ISO_V2_MSG_DEF"
    ELSE IF p = "DIN_SPEC_70121" THEN "DIN_MSG_BODY"
    ELSE "ISO_V20_COMMON_MSG"

get_exi_ns(p, name) ==
    IF p = "UNKNOWN" THEN "SAP"
    ELSE IF p = "ISO_15118_2" THEN "ISO_V2_MSG_DEF"
    ELSE IF p = "DIN_SPEC_70121" THEN "DIN_MSG_BODY"
    ELSE IF startswith(Letters(name), <<"A", "C">>) THEN "ISO_V20_AC"
    ELSE IF startswith(Letters(name), <<"D", "C">>) THEN "ISO_V20_DC"
    ELSE IF startswith(Letters(name), <<"W", "P", "T">>) THEN "ISO_V20_WPT"
    ELSE IF startswith(Letters(name), <<"A", "C", "D", "P">>) THEN "ISO_V20_ACDP"
    ELSE "ISO_V20_COMMON_MSG"

(***************************************************************************)
(* from_exi and V2GTPMessage.from_bytes: what a chunk read from the peer   *)
(* can turn out to be.                                                     *)
(***************************************************************************)
\* the typed messages defined in the schema of a namespace
Decodable(ns) ==
    IF ns = "SAP" THEN SAPMessages
    ELSE IF ns = "ISO_V2_MSG_DEF" THEN V2Messages
    ELSE IF ns = "DIN_MSG_BODY" THEN {}
    ELSE V20Messages

\* from_exi(payload, ns): raises EXIDecodingError ("error"), or returns None
\* or a typed message
from_exi(ns) ==
    {[exi |-> "error", msg |-> NoMessage], [exi |-> "none", msg |-> NoMessage]}
        \cup {[exi |-> "ok", msg |-> m] : m \in Decodable(ns)}

\* what V2GTPMessage.from_bytes finds wrong with a chunk
FrameFaults == {"header", "payload_type", "length"}

\* the chunks the peer can send: rejected by the framer, or framed and
\* decoding to one of the results of from_exi
Chunks(ns) ==
    {[fault |-> f, exi |-> "n/a", msg |-> NoMessage] : f \in FrameFaults}
        \cup {[fault |-> "none", exi |-> d.exi, msg |-> d.msg] : d \in from_exi(ns)}

(***************************************************************************)
(* StateSECC.stop_state_machine                                            *)
(***************************************************************************)
\* comm_session.failed_responses_isov2: request body type -> response
failed_responses_isov2(body) ==
    CASE body = "SessionSetupReqV2"     -> "SessionSetupResV2"
      [] body = "ServiceDiscoveryReqV2" -> "ServiceDiscoveryResV2"

\* comm_session.failed_responses_isov20: request type -> response
failed_responses_isov20(body) ==
    CASE body = "SessionSetupReqV20"       -> "SessionSetupResV20"
      [] body = "AuthorizationSetupReqV20" -> "AuthorizationSetupResV20"

\* a member of a response code enum
ResponseCode(family, name) == [family |-> family, name |-> name]

\* stop_state_machine answering every request with the response of the
\* session setup instead of the response of the faulty request
stop_state_machine_fixed_response(cs, faulty_request, response_code, n) ==
    IF faulty_request.kind \in
           {"V2GMessageV2", "V2GMessageV20", "SupportedAppProtocolReq"} THEN
        [arm |-> "isov2",
         cs  |-> create_next_message(cs, "Terminate",
                    Frame("SessionSetupResV2",
                          response_code.name, response_code.family, n),
                    FailedTimeout)]
    ELSE
        [arm |-> "none", cs |-> cs]

\* the state object stop_state_machine leaves behind, and the arm it took;
\* n is the number of the chunk being handled
stop_state_machine(cs, faulty_request, response_code, n) ==
    IF faulty_request.kind = "V2GMessageV2" THEN
        [arm |-> "isov2",
         cs  |-> create_next_message(cs, "Terminate",
                    Frame(failed_responses_isov2(faulty_request.body),
                          response_code.name, response_code.family, n),
                    FailedTimeout)]
    ELSE IF faulty_request.kind = "V2GMessageV20" /\ faulty_request.request THEN
        [arm |-> "isov20",
         cs  |-> create_next_message(cs, "Terminate",
                    Frame(failed_responses_isov20(faulty_request.body),
                          response_code.name, response_code.family, n),
                    FailedTimeout)]
    ELSE IF faulty_request.kind = "SupportedAppProtocolReq" THEN
        [arm |-> "sap",
         cs  |-> create_next_message(cs, "Terminate",
                    Frame("SupportedAppProtocolRes",
                          response_code.name, response_code.family, n),
                    FailedTimeout)]
    ELSE
        [arm |-> "none", cs |-> cs]

(***************************************************************************)
(* StateSECC.check_msg                                                     *)
(***************************************************************************)
\* the for loop without the test of lines 192-203 on the first element
match_loop_anywhere(msg_body, expected_msg_types, expect_first, idx) ==
    IF \E i \in 1..Len(expected_msg_types) : msg_body = expected_msg_types[i]
    THEN "match" ELSE "no_match"

\* the for loop over expected_msg_types (idx counts from 0 as enumerate does)
RECURSIVE match_loop(_, _, _, _)
match_loop(msg_body, expected_msg_types, expect_first, idx) ==
    IF idx >= Len(expected_msg_types) THEN "no_match"
    ELSE IF /\ idx = 0
            /\ expect_first
            /\ msg_body # expected_msg_types[idx + 1] THEN "not_first"
    ELSE IF msg_body = expected_msg_types[idx + 1] THEN "match"
    ELSE match_loop(msg_body, expected_msg_types, expect_first, idx + 1)

\* the condition of lines 217-221 without the ISO 15118-20 SessionSetupReq
session_id_mismatch_v2_only(message, sid) ==
    /\ message.body \notin {"SessionSetupReqV2"}
    /\ message.kind # "SupportedAppProtocolReq"
    /\ message.session_id # sid

\* the condition of lines 217-221
session_id_mismatch(message, sid) ==
    /\ message.body \notin {"SessionSetupReqV2", "SessionSetupReqV20"}
    /\ message.kind # "SupportedAppProtocolReq"
    /\ message.session_id # sid

\* check_msg with the session id compared before the body type
check_msg_session_first(message, expected_return_type, expected_msg_types, expect_first, sid) ==
    IF message.kind # expected_return_type THEN
        [ok |-> FALSE, failed |-> "wire_variant", stops |-> 1,
         code |-> ResponseCode("ResponseCodeV2", "FAILED_SequenceError")]
    ELSE IF session_id_mismatch(message, sid) THEN
        [ok |-> FALSE, failed |-> "session_id", stops |-> 1,
         code |-> ResponseCode("ResponseCodeV2", "FAILED_UnknownSession")]
    ELSE IF match_loop(message.body, expected_msg_types, expect_first, 0) # "match" THEN
        [ok |-> FALSE, failed |-> "body_type", stops |-> 1,
         code |-> ResponseCode("ResponseCodeV2", "FAILED_SequenceError")]
    ELSE
        [ok |-> TRUE, failed |-> "none", stops |-> 0,
         code |-> ResponseCode("ResponseCodeV2", "OK")]

\* the verdict of check_msg: ok (the message is returned) or the condition
\* that failed and the response code handed to stop_state_machine; stops is
\* the number of stop_state_machine calls made before the return
check_msg(message, expected_return_type, expected_msg_types, expect_first, sid) ==
    IF message.kind # expected_return_type THEN
        [ok |-> FALSE, failed |-> "wire_variant", stops |-> 1,
         code |-> ResponseCode("ResponseCodeV2", "FAILED_SequenceError")]
    ELSE IF match_loop(message.body, expected_msg_types, expect_first, 0) # "match" THEN
        [ok |-> FALSE, failed |-> "body_type", stops |-> 1,
         code |-> ResponseCode("ResponseCodeV2", "FAILED_SequenceError")]
    ELSE IF session_id_mismatch(message, sid) THEN
        [ok |-> FALSE, failed |-> "session_id", stops |-> 1,
         code |-> ResponseCode("ResponseCodeV2", "FAILED_UnknownSession")]
    ELSE
        [ok |-> TRUE, failed |-> "none", stops |-> 0,
         code |-> ResponseCode("ResponseCodeV2", "OK")]

(***************************************************************************)
(* The process_message of a state (the states themselves are outside the   *)
(* core): a state of the SECC first calls check_msg and returns when it    *)
(* yields None (StateSECC docstring, steps 1 and 2.b); what a state does   *)
(* otherwise is a choice among the outcomes of HandlerOutcomes.            *)
(***************************************************************************)
ExpectedReturnTypes == {"SupportedAppProtocolReq", "V2GMessageV2", "V2GMessageV20"}

ExpectedMsgTypes ==
    {<<>>,
     <<"SupportedAppProtocolReq">>,
     <<"SessionSetupReqV2">>,
     <<"ServiceDiscoveryReqV2", "SessionSetupReqV2">>,
     <<"SessionSetupReqV20">>,
     <<"AuthorizationSetupReqV20", "SessionSetupReqV20">>}

\* how the state validates the message: with check_msg and its arguments,
\* or not at all (a state of the EVCC)
Validations ==
    {[check |-> FALSE, ert |-> "SupportedAppProtocolReq", types |-> <<>>,
      expect_first |-> TRUE]}
        \cup [check : {TRUE}, ert : ExpectedReturnTypes,
              types : ExpectedMsgTypes, expect_first : BOOLEAN]

HandlerExceptions ==
    {"MessageProcessingError", "FaultyStateImplementationError",
     "ValidationError", "AttributeError"}

NoEffect == [var |-> "none", val |-> "none"]

\* what a state writes to the session while it handles message: the protocol
\* when the SupportedAppProtocol handshake completes, the session id when
\* the session is set up, the selections of the later requests
HandlerEffects(message) ==
    {NoEffect}
        \cup (IF message.kind \in {"SupportedAppProtocolReq", "SupportedAppProtocolRes"}
              THEN {[var |-> "protocol", val |-> p] : p \in ConcreteProtocols}
              ELSE {})
        \cup (IF /\ message.body \in {"SessionSetupReqV2", "SessionSetupReqV20",
                                      "SessionSetupResV20"}
                 /\ session_id = ""
              THEN {[var |-> "session_id", val |-> i] : i \in StoredIds}
              ELSE {})
        \cup (IF message.body \in {"ServiceDiscoveryReqV2", "AuthorizationSetupReqV20"}
              THEN {[var |-> "selected", val |-> "selected"]}
              ELSE {})

\* create: create_next_message(next, ...); stop: next_state is set to
\* Terminate or Pause and nothing is staged; nothing: the state returns
\* having set nothing; raise: the state raises exc.  reason: whether the
\* state also sets comm_session.stop_reason
HandlerOutcomes(message) ==
    [kind : {"create"}, next : {"None"} \cup StateNames, reason : {"none"},
     effect : HandlerEffects(message), exc : {"none"}]
        \cup [kind : {"create"}, next : {"Terminate", "Pause"},
              reason : {"none", "successful", "failed"},
              effect : HandlerEffects(message), exc : {"none"}]
        \cup [kind : {"stop"}, next : {"Terminate", "Pause"},
              reason : {"none", "successful", "failed"},
              effect : {NoEffect}, exc : {"none"}]
        \cup [kind : {"nothing"}, next : {"None"}, reason : {"none"},
              effect : {NoEffect}, exc : {"none"}]
        \cup [kind : {"raise"}, next : {"None"}, reason : {"none"},
              effect : {NoEffect}, exc : HandlerExceptions]

\* the state object and stop_reason after the outcome o
apply_outcome(o, cs, sr, n) ==
    [cs |-> IF o.kind = "create"
            THEN create_next_message(cs, o.next,
                     Frame("StateMessage", "OK", "none", n), StateTimeout)
            ELSE IF o.kind = "stop"
            THEN [cs EXCEPT !.next_state = o.next]
            ELSE cs,
     sr |-> IF o.reason = "none" THEN sr
            ELSE StopNotification(o.reason = "successful", "set by the state")]

\* current_state.process_message(decoded_message) with validation v and
\* outcome o; n is the number of the chunk
state_process_message(message, v, o, cs, sr, n) ==
    LET verdict == check_msg(message, v.ert, v.types, v.expect_first, session_id)
    IN  IF v.check /\ ~verdict.ok THEN
            LET s == stop_state_machine(cs, message, verdict.code, n)
            IN  [exc |-> "none", cs |-> s.cs,
                 sr |-> StopNotification(FALSE, "stop_state_machine"),
                 effect |-> NoEffect, check |-> verdict.failed,
                 request |-> message, arm |-> s.arm]
        ELSE
            LET a == apply_outcome(o, cs, sr, n)
            IN  [exc |-> o.exc, cs |-> a.cs, sr |-> a.sr,
                 effect |-> IF o.exc = "none" THEN o.effect ELSE NoEffect,
                 check |-> IF v.check THEN "ok" ELSE "n/a",
                 request |-> IF v.check THEN message ELSE NoMessage,
                 arm |-> "n/a"]

(***************************************************************************)
(* SessionStateMachine.process_message                                     *)
(***************************************************************************)
NoIter ==
    [fault |-> "n/a", exi |-> "n/a", handler |-> FALSE, check |-> "n/a",
     request |-> NoMessage, arm |-> "n/a", exc |-> "none", sent |-> 0]

\* the post-condition check of lines 213-221: whether it raises
post_condition_raises(cs) ==
    /\ cs.next_v2gtp_msg = NoFrame
    /\ cs.next_state # "Terminate"

\* the except clause of lines 181-184 without the assignment of line 183
on_exi_decoding_error_keeps_state(cs) == cs

\* lines 181-184: the state object when from_exi raised EXIDecodingError
on_exi_decoding_error(cs) ==
    [cs EXCEPT !.next_state = "Terminate"]

\* steps 2 and 3 of process_message (lines 171-221) on a framed chunk
decode_and_dispatch(chunk, v, o, cs, sr, n) ==
    IF chunk.exi = "error" THEN
        [result |-> "EXIDecodingError", cs |-> on_exi_decoding_error(cs),
         sr |-> sr, effect |-> NoEffect,
         iter |-> [NoIter EXCEPT !.fault = chunk.fault, !.exi = "error"]]
    ELSE IF chunk.msg = NoMessage THEN
        [result |-> "returned", cs |-> cs, sr |-> sr, effect |-> NoEffect,
         iter |-> [NoIter EXCEPT !.fault = chunk.fault, !.exi = "none"]]
    ELSE
        LET h == state_process_message(chunk.msg, v, o, cs, sr, n)
            it == [fault |-> chunk.fault, exi |-> "ok", handler |-> TRUE,
                   check |-> h.check, request |-> h.request, arm |-> h.arm,
                   exc |-> h.exc, sent |-> 0]
        IN  IF h.exc # "none" THEN
                [result |-> h.exc, cs |-> h.cs, sr |-> h.sr,
                 effect |-> NoEffect, iter |-> it]
            ELSE IF post_condition_raises(h.cs) THEN
                [result |-> "FaultyStateImplementationError", cs |-> h.cs,
                 sr |-> h.sr, effect |-> h.effect, iter |-> it]
            ELSE
                [result |-> "returned", cs |-> h.cs, sr |-> h.sr,
                 effect |-> h.effect, iter |-> it]

\* process_message without step 1: a chunk the framer rejects is decoded too
process_message_unframed(chunk, v, o, cs, sr, n) ==
    decode_and_dispatch(chunk, v, o, cs, sr, n)

\* how process_message(chunk) ends (result: "returned" or the exception
\* raised), and the state object, stop_reason and session write it leaves
process_message(chunk, v, o, cs, sr, n) ==
    IF chunk.fault # "none" THEN
        [result |-> "MessageProcessingError", cs |-> cs, sr |-> sr,
         effect |-> NoEffect,
         iter |-> [NoIter EXCEPT !.fault = chunk.fault]]
    ELSE decode_and_dispatch(chunk, v, o, cs, sr, n)

\* SessionStateMachine.go_to_next_state: the state object current_state is
\* afterwards.  The instance of next_state that line 234 constructs is not
\* assigned to anything.
go_to_next_state(cs) ==
    IF cs.next_state # "None" THEN cs ELSE cs

\* resume that leaves the state object in place
resume_keeps_state(start) == current_state

\* SessionStateMachine.resume: the new current_state
resume(start) == NewState(start)

(***************************************************************************)
(* V2GCommunicationSession                                                 *)
(***************************************************************************)
SessionData ==
    << chosen_protocol, selected_services, selected_energy_mode,
       selected_schedule >>

History == << wire, queue, nrecv, go_calls, resumes, iter >>

\* no function is applied on its own
NoCall ==
    [fn |-> "none", message |-> NoMessage, expected_return_type |-> "none",
     expected_msg_types |-> <<>>, expect_first |-> FALSE, result |-> "none"]

\* V2GCommunicationSession.__init__ and SessionStateMachine.__init__
Init ==
    /\ protocol = "UNKNOWN"
    /\ session_id = ""
    /\ chosen_protocol = ""
    /\ selected_services = "none"
    /\ selected_energy_mode = "none"
    /\ selected_schedule = "none"
    /\ stop_reason = NoReason
    /\ last_message_sent = NoFrame
    /\ started = TRUE
    /\ start_state \in StateNames
    /\ current_state = NewState(start_state)
    /\ timeout = 0
    /\ sending = NoFrame
    /\ pc = "init"
    /\ pm = "none"
    /\ exit_path = "none"
    /\ wire = <<>>
    /\ queue = <<>>
    /\ writer_closed = FALSE
    /\ save_calls = 0
    /\ stop_log = <<>>
    /\ nrecv = 0
    /\ go_calls = 0
    /\ resumes = 0
    /\ iter = NoIter
    /\ call = NoCall

\* start(timeout), up to the first read of rcv_loop
Start ==
    /\ pc = "init"
    /\ started' = TRUE
    /\ timeout' = StartTimeout
    /\ pc' = "read"
    /\ UNCHANGED << protocol, session_id, SessionData, stop_reason,
                    last_message_sent, start_state, current_state, sending,
                    pm, exit_path, writer_closed, save_calls, stop_log,
                    History >>
    /\ UNCHANGED call

\* lines 332-342 with save_session_info called whatever next_state is
stop_prologue_always_saves(cs, sr) ==
    [save |-> TRUE, raises |-> ~sr.set]

\* the part of stop() before its first sleep (lines 332-342): whether
\* save_session_info is called, and whether the log line raises
\* AttributeError because stop_reason is None
stop_prologue(cs, sr) ==
    [save |-> cs.next_state = "Pause", raises |-> ~sr.set]

\* rcv_loop calls stop() on the exit path, stop_reason being sr.  The
\* AttributeError of the log line is caught by line 467 when the call is
\* the one of line 435 (stop_reason is set and stop() is called again), and
\* leaves rcv_loop and start() when the call is the one of line 392.
CallStop(sr, path) ==
    LET p == stop_prologue(current_state, sr)
        saved == IF p.save THEN <<"save_session_info">> ELSE <<>>
    IN  IF ~p.raises THEN
            /\ stop_reason' = sr
            /\ save_calls' = save_calls + Len(saved)
            /\ stop_log' = stop_log \o saved
            /\ exit_path' = path
            /\ pc' = "stop_sleep_2"
            /\ started' = started
        ELSE IF path = "terminate_pause" THEN
            /\ stop_reason' = StopNotification(FALSE, "AttributeError")
            /\ save_calls' = save_calls + Len(saved) + Len(saved)
            /\ stop_log' = stop_log \o saved \o saved
            /\ exit_path' = "attribute_value_error"
            /\ pc' = "stop_sleep_2"
            /\ started' = started
        ELSE
            /\ stop_reason' = sr
            /\ save_calls' = save_calls + Len(saved)
            /\ stop_log' = stop_log \o saved
            /\ exit_path' = path
            /\ pc' = "raised"
            /\ started' = FALSE

\* reader.read returns b"" at EOF (lines 391-400)
PeerClose ==
    /\ pc = "read"
    /\ CallStop(stop_reason, "peer_closed")
    /\ UNCHANGED << protocol, session_id, SessionData, last_message_sent,
                    start_state, current_state, timeout, sending, pm,
                    writer_closed, History >>
    /\ UNCHANGED call

\* lines 402-418 with the else branch taken whatever last_message_sent is
timeout_stop_reason_never_cites(last) ==
    StopNotification(FALSE, "timeout, no V2GTP message was previously sent")

\* lines 402-418: the stop_reason of a read timeout, last being
\* last_message_sent
timeout_stop_reason(last) ==
    IF last # NoFrame
    THEN [StopNotification(FALSE, "timeout after sending last message")
            EXCEPT !.cites = last]
    ELSE StopNotification(FALSE,
                          "timeout, no V2GTP message was previously sent")

\* asyncio.wait_for times out (lines 401-422)
ReadTimeout ==
    /\ pc = "read"
    /\ CallStop(timeout_stop_reason(last_message_sent), "timeout")
    /\ UNCHANGED << protocol, session_id, SessionData, last_message_sent,
                    start_state, current_state, timeout, sending, pm,
                    writer_closed, History >>
    /\ UNCHANGED call

NoValidation ==
    [check |-> FALSE, ert |-> "SupportedAppProtocolReq", types |-> <<>>,
     expect_first |-> TRUE]

NoOutcome ==
    [kind |-> "nothing", next |-> "None", reason |-> "none",
     effect |-> NoEffect, exc |-> "none"]

\* the validations that reject message, and those that accept it
Rejecting(message) ==
    {v \in Validations :
        /\ v.check
        /\ ~check_msg(message, v.ert, v.types, v.expect_first, session_id).ok}

Accepting(message) ==
    {v \in Validations :
        /\ v.check
        /\ check_msg(message, v.ert, v.types, v.expect_first, session_id).ok}

\* the ways the current state can handle message: every validation that
\* rejects it (the outcome is then not used), and every outcome after no
\* validation or after one that accepts it (all of these act alike, so one
\* stands for them)
HandlerRuns(message) ==
    IF message = NoMessage THEN {[v |-> NoValidation, o |-> NoOutcome]}
    ELSE {[v |-> v, o |-> NoOutcome] : v \in Rejecting(message)}
            \cup {[v |-> v, o |-> o] :
                    v \in {NoValidation} \cup
                          (IF Accepting(message) = {} THEN {}
                           ELSE {CHOOSE a \in Accepting(message) : TRUE}),
                    o \in HandlerOutcomes(message)}

\* reader.read returns a chunk and rcv_loop calls process_message (line 427)
ReadMessage ==
    /\ pc = "read"
    /\ nrecv < MaxMsgs
    /\ \E chunk \in Chunks(get_exi_ns(protocol, current_state.name)) :
       \E run \in HandlerRuns(chunk.msg) :
          LET r == process_message(chunk, run.v, run.o, current_state,
                                   stop_reason, nrecv + 1)
          IN  /\ pm' = r.result
              /\ current_state' = r.cs
              /\ stop_reason' = r.sr
              /\ iter' = r.iter
              /\ protocol' = IF r.effect.var = "protocol"
                             THEN r.effect.val ELSE protocol
              /\ chosen_protocol' = IF r.effect.var = "protocol"
                                    THEN r.effect.val ELSE chosen_protocol
              /\ session_id' = IF r.effect.var = "session_id"
                               THEN r.effect.val ELSE session_id
              /\ selected_services' = IF r.effect.var = "selected"
                                      THEN r.effect.val ELSE selected_services
              /\ selected_energy_mode' = IF r.effect.var = "selected"
                                         THEN r.effect.val ELSE selected_energy_mode
              /\ selected_schedule' = IF r.effect.var = "selected"
                                      THEN r.effect.val ELSE selected_schedule
    /\ nrecv' = nrecv + 1
    /\ pc' = "processed"
    /\ UNCHANGED << last_message_sent, started, start_state, timeout, sending,
                    exit_path, wire, queue, writer_closed, save_calls,
                    stop_log, go_calls, resumes >>
    /\ UNCHANGED call

\* lines 434-442 without the assignment of line 441: the read budget stays
AfterSend_keeps_timeout ==
    IF current_state.next_state \in {"Terminate", "Pause"} THEN
        /\ CallStop(stop_reason, "terminate_pause")
        /\ UNCHANGED << current_state, timeout, go_calls >>
    ELSE
        /\ timeout' = timeout
        /\ current_state' = go_to_next_state(current_state)
        /\ go_calls' = go_calls + 1
        /\ pc' = "read"
        /\ UNCHANGED << stop_reason, save_calls, stop_log, exit_path, started >>

\* lines 434-442: stop on Terminate or Pause, else take the next timeout and
\* go to the next state
AfterSend ==
    IF current_state.next_state \in {"Terminate", "Pause"} THEN
        /\ CallStop(stop_reason, "terminate_pause")
        /\ UNCHANGED << current_state, timeout, go_calls >>
    ELSE
        /\ timeout' = current_state.next_msg_timeout
        /\ current_state' = go_to_next_state(current_state)
        /\ go_calls' = go_calls + 1
        /\ pc' = "read"
        /\ UNCHANGED << stop_reason, save_calls, stop_log, exit_path, started >>

\* process_message returned: lines 429-442 up to the next suspension
Returned ==
    /\ pc = "processed"
    /\ pm = "returned"
    /\ IF current_state.next_v2gtp_msg # NoFrame THEN
           \* send(): writer.write, then await writer.drain()
           /\ wire' = Append(wire, [frame |-> current_state.next_v2gtp_msg,
                                    sentAt |-> nrecv])
           /\ sending' = current_state.next_v2gtp_msg
           /\ iter' = [iter EXCEPT !.sent = @ + 1]
           /\ pc' = "drain"
           /\ UNCHANGED << current_state, timeout, go_calls, stop_reason,
                           save_calls, stop_log, exit_path, started >>
       ELSE
           /\ AfterSend
           /\ UNCHANGED << wire, sending, iter >>
    /\ UNCHANGED << protocol, session_id, SessionData, last_message_sent,
                    start_state, pm, queue, writer_closed, nrecv, resumes >>
    /\ UNCHANGED call

\* writer.drain() completes: line 367, then lines 434-442
DrainDone ==
    /\ pc = "drain"
    /\ last_message_sent' = sending
    /\ sending' = NoFrame
    /\ AfterSend
    /\ UNCHANGED << protocol, session_id, SessionData, start_state, pm, wire,
                    queue, writer_closed, nrecv, resumes, iter >>
    /\ UNCHANGED call

\* process_message raised: the except clauses of lines 443-477
Raised ==
    /\ pc = "processed"
    /\ pm # "returned"
    /\ IF pm \in {"MessageProcessingError", "FaultyStateImplementationError",
                  "EXIDecodingError"}
       THEN CallStop(StopNotification(FALSE, pm), "error")
       ELSE CallStop(StopNotification(FALSE, pm), "attribute_value_error")
    /\ UNCHANGED << protocol, session_id, SessionData, last_message_sent,
                    start_state, current_state, timeout, sending, pm,
                    writer_closed, History >>
    /\ UNCHANGED call

\* stop(): asyncio.sleep(2) is over, the data link is signalled
StopSleep2 ==
    /\ pc = "stop_sleep_2"
    /\ stop_log' = stop_log \o <<"sleep_2", "data_link">>
    /\ pc' = "stop_sleep_3"
    /\ UNCHANGED << protocol, session_id, SessionData, stop_reason,
                    last_message_sent, started, start_state, current_state,
                    timeout, sending, pm, exit_path, writer_closed,
                    save_calls, History >>
    /\ UNCHANGED call

\* stop() without the writer.close() of line 349
StopSleep3_no_close ==
    /\ pc = "stop_sleep_3"
    /\ stop_log' = stop_log \o <<"sleep_3">>
    /\ writer_closed' = writer_closed
    /\ pc' = "stop_wait_closed"
    /\ UNCHANGED << protocol, session_id, SessionData, stop_reason,
                    last_message_sent, started, start_state, current_state,
                    timeout, sending, pm, exit_path, save_calls, History >>
    /\ UNCHANGED call

\* stop(): asyncio.sleep(3) is over, writer.close() is called
StopSleep3 ==
    /\ pc = "stop_sleep_3"
    /\ stop_log' = stop_log \o <<"sleep_3", "close">>
    /\ writer_closed' = TRUE
    /\ pc' = "stop_wait_closed"
    /\ UNCHANGED << protocol, session_id, SessionData, stop_reason,
                    last_message_sent, started, start_state, current_state,
                    timeout, sending, pm, exit_path, save_calls, History >>
    /\ UNCHANGED call

\* the item rcv_loop puts on the queue after stop(): lines 393-399 on the
\* peer-closed path, self.stop_reason on the others
queue_item(path, sr) ==
    IF path = "peer_closed"
    THEN StopNotification(FALSE, "TCP peer closed connection")
    ELSE sr

\* writer.wait_closed() completes: stop() returns, rcv_loop puts the item on
\* the queue and returns, start() resets _started (line 310)
StopClosed ==
    /\ pc = "stop_wait_closed"
    /\ queue' = Append(queue, queue_item(exit_path, stop_reason))
    /\ started' = FALSE
    /\ pc' = "done"
    /\ UNCHANGED << protocol, session_id, SessionData, stop_reason,
                    last_message_sent, start_state, current_state, timeout,
                    sending, pm, exit_path, wire, writer_closed, save_calls,
                    stop_log, nrecv, go_calls, resumes, iter >>
    /\ UNCHANGED call

\* resume() that also starts the protocol negotiation over
Resume_resets_protocol ==
    /\ pc \in {"done", "raised"}
    /\ resumes < MaxResumes
    /\ current_state' = NewState(start_state)
    /\ protocol' = "UNKNOWN"
    /\ resumes' = resumes + 1
    /\ UNCHANGED << session_id, SessionData, stop_reason,
                    last_message_sent, started, start_state, timeout, sending,
                    pc, pm, exit_path, wire, queue, writer_closed,
                    save_calls, stop_log, nrecv, go_calls, iter >>
    /\ UNCHANGED call

\* resume(), called by the session handler after the loop has ended
Resume ==
    /\ pc \in {"done", "raised"}
    /\ resumes < MaxResumes
    /\ current_state' = resume(start_state)
    /\ resumes' = resumes + 1
    /\ UNCHANGED << protocol, session_id, SessionData, stop_reason,
                    last_message_sent, started, start_state, timeout, sending,
                    pc, pm, exit_path, wire, queue, writer_closed,
                    save_calls, stop_log, nrecv, go_calls, iter >>
    /\ UNCHANGED call

Next ==
    \/ Start
    \/ PeerClose
    \/ ReadTimeout
    \/ ReadMessage
    \/ Returned
    \/ DrainDone
    \/ Raised
    \/ StopSleep2
    \/ StopSleep3
    \/ StopClosed
    \/ Resume

Spec == Init /\ [][Next]_vars

(***************************************************************************)
(* get_exi_ns applied on its own: the session in any protocol, its state   *)
(* machine in any state of the start protocol or of ISO 15118-20           *)
(***************************************************************************)
SessionVars ==
    << protocol, session_id, SessionData, stop_reason, last_message_sent,
       started, start_state, current_state, timeout, sending, pc, pm,
       exit_path, writer_closed, save_calls, stop_log, History >>

NsInit ==
    /\ protocol \in Protocols
    /\ session_id = ""
    /\ chosen_protocol = ""
    /\ selected_services = "none"
    /\ selected_energy_mode = "none"
    /\ selected_schedule = "none"
    /\ stop_reason = NoReason
    /\ last_message_sent = NoFrame
    /\ started = TRUE
    /\ start_state \in StateNames \cup V20StateNames
    /\ current_state = NewState(start_state)
    /\ timeout = 0
    /\ sending = NoFrame
    /\ pc = "init"
    /\ pm = "none"
    /\ exit_path = "none"
    /\ wire = <<>>
    /\ queue = <<>>
    /\ writer_closed = FALSE
    /\ save_calls = 0
    /\ stop_log = <<>>
    /\ nrecv = 0
    /\ go_calls = 0
    /\ resumes = 0
    /\ iter = NoIter
    /\ call = NoCall

\* SessionStateMachine.get_exi_ns(payload_type) is called
GetExiNs ==
    /\ call.fn = "none"
    /\ call' = [NoCall EXCEPT !.fn = "get_exi_ns",
                              !.result = get_exi_ns(protocol, current_state.name)]
    /\ UNCHANGED SessionVars

NsNext == GetExiNs

SpecNs == NsInit /\ [][NsNext]_vars

(***************************************************************************)
(* check_msg applied on its own: a state of the SECC calls it on a decoded *)
(* message with any arguments, the session having a session id or none yet *)
(***************************************************************************)
CkInit ==
    /\ protocol = "UNKNOWN"
    /\ session_id \in {""} \cup StoredIds
    /\ chosen_protocol = ""
    /\ selected_services = "none"
    /\ selected_energy_mode = "none"
    /\ selected_schedule = "none"
    /\ stop_reason = NoReason
    /\ last_message_sent = NoFrame
    /\ started = TRUE
    /\ start_state \in StateNames
    /\ current_state = NewState(start_state)
    /\ timeout = StartTimeout
    /\ sending = NoFrame
    /\ pc = "read"
    /\ pm = "none"
    /\ exit_path = "none"
    /\ wire = <<>>
    /\ queue = <<>>
    /\ writer_closed = FALSE
    /\ save_calls = 0
    /\ stop_log = <<>>
    /\ nrecv = 0
    /\ go_calls = 0
    /\ resumes = 0
    /\ iter = NoIter
    /\ call \in [fn : {"none"}, message : Messages,
                 expected_return_type : ExpectedReturnTypes,
                 expected_msg_types : ExpectedMsgTypes,
                 expect_first : BOOLEAN, result : {"none"}]

\* StateSECC.check_msg(message, expected_return_type, expected_msg_types,
\* expect_first) is called, stop_state_machine included
CheckMsg ==
    /\ call.fn = "none"
    /\ LET verdict == check_msg(call.message, call.expected_return_type,
                                call.expected_msg_types, call.expect_first,
                                session_id)
           s == stop_state_machine(current_state, call.message, verdict.code,
                                   nrecv + 1)
       IN  /\ call' = [call EXCEPT !.fn = "check_msg", !.result = verdict]
           /\ current_state' = IF verdict.ok THEN current_state ELSE s.cs
           /\ stop_reason' = IF verdict.ok THEN stop_reason
                             ELSE StopNotification(FALSE, "stop_state_machine")
    /\ UNCHANGED << protocol, session_id, SessionData, last_message_sent,
                    started, start_state, timeout, sending, pc, pm, exit_path,
                    writer_closed, save_calls, stop_log, History >>

CkNext == CheckMsg

SpecCk == CkInit /\ [][CkNext]_vars

(***************************************************************************)
(* Properties                                                              *)
(***************************************************************************)
\* the positions of the session task from the return of process_message to
\* the return of rcv_loop on an exit path that ran stop() to its end
AfterProcessing ==
    {"processed", "drain", "stop_sleep_2", "stop_sleep_3", "stop_wait_closed",
     "done"}

\* the frames written to the peer while chunk n was being handled
SentDuring(n) == {i \in 1..Len(wire) : wire[i].sentAt = n}

\* the response that answers a request of type body
ResponseOf(body) ==
    CASE body = "SupportedAppProtocolReq"  -> "SupportedAppProtocolRes"
      [] body = "SessionSetupReqV2"        -> "SessionSetupResV2"
      [] body = "ServiceDiscoveryReqV2"    -> "ServiceDiscoveryResV2"
      [] body = "SessionSetupReqV20"       -> "SessionSetupResV20"
      [] body = "AuthorizationSetupReqV20" -> "AuthorizationSetupResV20"
      [] OTHER                             -> "None"

\* C1: a request that check_msg rejects on the wire variant or on the body
\* type is answered with exactly one frame, the response of the request's own
\* type with FAILED_SequenceError; next_state is Terminate; the loop then
\* stops, closes the transport and sends nothing else
C1_SequenceErrorAnswered ==
    (iter.check \in {"wire_variant", "body_type"} /\ iter.request.request) =>
        /\ pm = "returned"
        /\ pc \in AfterProcessing
        /\ (pc # "done" => current_state.next_state = "Terminate")
        /\ Cardinality(SentDuring(nrecv)) = (IF pc = "processed" THEN 0 ELSE 1)
        /\ (pc # "processed" =>
               /\ wire[Len(wire)].sentAt = nrecv
               /\ wire[Len(wire)].frame.stagedAt = nrecv
               /\ wire[Len(wire)].frame.body = ResponseOf(iter.request.body)
               /\ wire[Len(wire)].frame.code = "FAILED_SequenceError")
        /\ (pc = "done" => writer_closed /\ exit_path = "terminate_pause")

C1_Witness ==
    /\ pc = "done"
    /\ writer_closed
    /\ iter.check = "body_type"
    /\ iter.request.body = "ServiceDiscoveryReqV2"
    /\ Len(wire) = 2
    /\ wire[2].frame.code = "FAILED_SequenceError"

\* C2: check_msg rejects on the session id exactly the messages that are
\* neither a SessionSetupReq nor a SupportedAppProtocolReq and carry another
\* session id than the stored one; it then stages a response with
\* FAILED_UnknownSession and sets next_state to Terminate; a message it
\* accepts is a SessionSetupReq, a SupportedAppProtocolReq or carries the
\* stored session id
C2_SessionIdRule ==
    /\ iter.check = "session_id" =>
          /\ iter.request.body \notin {"SessionSetupReqV2", "SessionSetupReqV20"}
          /\ iter.request.kind # "SupportedAppProtocolReq"
          /\ iter.request.session_id # session_id
          /\ pm = "returned"
          /\ (pc # "done" =>
                 /\ current_state.next_state = "Terminate"
                 /\ current_state.next_v2gtp_msg.stagedAt = nrecv
                 /\ current_state.next_v2gtp_msg.code = "FAILED_UnknownSession")
    /\ iter.check = "ok" =>
          \/ iter.request.body \in {"SessionSetupReqV2", "SessionSetupReqV20"}
          \/ iter.request.kind = "SupportedAppProtocolReq"
          \/ iter.request.session_id = session_id

C2_Witness ==
    /\ pc = "done"
    /\ iter.check = "session_id"
    /\ session_id # ""
    /\ iter.request.body = "ServiceDiscoveryReqV2"
    /\ wire[Len(wire)].frame.body = "ServiceDiscoveryResV2"
    /\ wire[Len(wire)].frame.code = "FAILED_UnknownSession"

\* C3: whenever process_message returns without raising, the current state
\* has next_v2gtp_msg set or next_state = Terminate
C3_PostCondition ==
    (pc = "processed" /\ pm = "returned") =>
        \/ current_state.next_v2gtp_msg # NoFrame
        \/ current_state.next_state = "Terminate"

\* C4: when rcv_loop has ended, by returning or by an exception that leaves
\* it, exactly one StopNotification is on the session handler queue
C4_OneStopNotification ==
    pc \in {"done", "raised"} => (Len(queue) = 1 /\ queue[1].set)

\* C5: a go_to_next_state call made while next_state is a state class S
\* makes current_state a new instance of S
C5_StateReplaced ==
    [][(go_calls' = go_calls + 1 /\ current_state.next_state \in StateNames)
          => current_state' = NewState(current_state.next_state)]_vars

\* C6: a chunk the framer rejects makes process_message raise
\* MessageProcessingError without the state handler being invoked; nothing
\* is written to the peer from then on, and the loop ends with a stop
\* notification whose successful is false
C6_InvalidFrame ==
    iter.fault \in FrameFaults =>
        /\ pm = "MessageProcessingError"
        /\ ~iter.handler
        /\ pc \in AfterProcessing \ {"drain"}
        /\ sending = NoFrame
        /\ \A i \in 1..Len(wire) : wire[i].sentAt < nrecv
        /\ (pc # "processed" =>
               /\ exit_path = "error"
               /\ stop_reason.set /\ ~stop_reason.successful)
        /\ (pc = "done" =>
               /\ Len(queue) = 1
               /\ queue[1].set /\ ~queue[1].successful)

C6_Witness ==
    /\ pc = "done"
    /\ iter.fault = "length"
    /\ nrecv = 2
    /\ Len(wire) = 1
    /\ Len(queue) = 1

\* C7: when the EXI decode fails, process_message sets next_state to
\* Terminate and raises EXIDecodingError without invoking the state handler;
\* the loop sends no frame for that chunk, records a stop_reason whose
\* successful is false and ends
C7_ExiDecodingError ==
    iter.exi = "error" =>
        /\ pm = "EXIDecodingError"
        /\ ~iter.handler
        /\ (pc # "done" => current_state.next_state = "Terminate")
        /\ pc \in AfterProcessing \ {"drain"}
        /\ sending = NoFrame
        /\ SentDuring(nrecv) = {}
        /\ (pc # "processed" =>
               /\ exit_path = "error"
               /\ stop_reason = StopNotification(FALSE, "EXIDecodingError"))
        /\ (pc = "done" =>
               /\ writer_closed
               /\ queue = <<StopNotification(FALSE, "EXIDecodingError")>>)

C7_Witness ==
    /\ pc = "done"
    /\ iter.exi = "error"
    /\ nrecv = 2
    /\ current_state.next_v2gtp_msg # NoFrame
    /\ Len(wire) = 1
    /\ Len(queue) = 1

\* C8: protocol starts as UNKNOWN; a step changes it only while it is
\* UNKNOWN, and only the state handler called by process_message changes it:
\* no step of the core (rcv_loop, send, stop, go_to_next_state, resume) does
C8_ProtocolMonotonic ==
    /\ protocol = "UNKNOWN"
    /\ [][/\ (protocol # "UNKNOWN" => protocol' = protocol)
          /\ (protocol' # protocol =>
                 /\ pc = "read"
                 /\ pc' = "processed"
                 /\ iter'.handler)]_vars

C8_Witness ==
    /\ protocol = "ISO_15118_20"
    /\ nrecv = 2
    /\ go_calls = 1
    /\ pc = "done"
    /\ resumes = 1

\* C9: resume() makes current_state a new instance of start_state and
\* leaves session_id, protocol, chosen_protocol and the selections as they
\* are; a session_id that is not empty stays as it is in every step, and the
\* only step that writes session_id at all is the state handler called by
\* process_message: no step of the core does
C9_ResumeKeepsSession ==
    [][/\ (resumes' = resumes + 1 =>
              /\ current_state' = NewState(start_state)
              /\ start_state' = start_state
              /\ session_id' = session_id
              /\ protocol' = protocol
              /\ SessionData' = SessionData)
       /\ (session_id # "" => session_id' = session_id)
       /\ (session_id' # session_id =>
              /\ pc = "read"
              /\ pc' = "processed"
              /\ iter'.handler)]_vars

C9_Witness ==
    /\ resumes = 1
    /\ pc = "done"
    /\ exit_path = "terminate_pause"
    /\ save_calls = 1
    /\ session_id # ""
    /\ current_state = NewState(start_state)

\* C10: every frame is written while the chunk whose handling staged it is
\* the last one read, at most one frame is written per chunk, and a read
\* starts only when the drain of the last send has completed
C10_StrictAlternation ==
    /\ \A i \in 1..Len(wire) : wire[i].frame.stagedAt = wire[i].sentAt
    /\ \A n \in 1..nrecv : Cardinality(SentDuring(n)) <= 1
    /\ (pc = "read" =>
           /\ sending = NoFrame
           /\ (wire # <<>> => last_message_sent = wire[Len(wire)].frame))

\* the stop() steps and the return of rcv_loop
Stopping == {"stop_sleep_2", "stop_sleep_3", "stop_wait_closed", "done"}

\* what holds of a session whose read timed out
TimedOut ==
    /\ pc \in Stopping
    /\ sending = NoFrame
    /\ last_message_sent =
          (IF wire = <<>> THEN NoFrame ELSE wire[Len(wire)].frame)
    /\ stop_reason.set /\ ~stop_reason.successful
    /\ IF wire # <<>>
       THEN /\ stop_reason.reason = "timeout after sending last message"
            /\ stop_reason.cites = wire[Len(wire)].frame
       ELSE /\ stop_reason.reason =
                 "timeout, no V2GTP message was previously sent"
            /\ stop_reason.cites = NoFrame
    /\ queue = (IF pc = "done" THEN <<stop_reason>> ELSE <<>>)

\* C11: when the read times out, stop_reason is a failed notification that
\* cites last_message_sent if a frame was sent before and says that no
\* V2GTP message was previously sent otherwise; last_message_sent is then
\* the frame transmitted last; from then on the loop sends no frame, and it
\* puts that same notification on the queue when it returns.
C11_ReadTimeout ==
    [][exit_path' = "timeout" =>
          /\ TimedOut'
          /\ wire' = wire
          /\ exit_path = "timeout" => stop_reason' = stop_reason]_vars

\* a read timed out after a frame had been sent, and the loop has returned
C11_Witness ==
    /\ exit_path = "timeout"
    /\ pc = "done"
    /\ wire # <<>>
    /\ stop_reason.cites = last_message_sent
    /\ queue = <<stop_reason>>

\* C12: when the peer closes the connection, whether or not a stop_reason
\* has been set before, the loop runs stop() to its end (the writer is
\* closed), puts a failed notification with reason "TCP peer closed
\* connection" on the queue and returns normally.
C12_PeerClosed ==
    exit_path = "peer_closed" =>
        /\ pc \in Stopping
        /\ pc = "done" =>
              /\ writer_closed
              /\ queue = <<StopNotification(FALSE, "TCP peer closed connection")>>

\* the namespace of the family whose prefix the state name starts with
FamilyNamespace(name) ==
    IF startswith(Letters(name), <<"A", "C", "D", "P">>) THEN "ISO_V20_ACDP"
    ELSE IF startswith(Letters(name), <<"A", "C">>) THEN "ISO_V20_AC"
    ELSE IF startswith(Letters(name), <<"D", "C">>) THEN "ISO_V20_DC"
    ELSE IF startswith(Letters(name), <<"W", "P", "T">>) THEN "ISO_V20_WPT"
    ELSE "ISO_V20_COMMON_MSG"

\* C13: in an ISO 15118-20 session get_exi_ns yields the namespace of the
\* family the name of the current state starts with (AC, DC, WPT or ACDP)
\* and the common namespace otherwise; a state whose name starts with ACDP
\* is decoded with ISO_V20_ACDP.
C13_FamilyNamespace ==
    (call.fn = "get_exi_ns" /\ protocol = "ISO_15118_20") =>
        call.result = FamilyNamespace(current_state.name)

\* the state SessionSetup of an ISO 15118-2 session has rejected a
\* ServiceDiscoveryReq because of its body type
OutOfOrder ==
    /\ current_state.name = "SessionSetup"
    /\ protocol = "ISO_15118_2"
    /\ iter.check = "body_type"
    /\ iter.request.body = "ServiceDiscoveryReqV2"

\* the response staged for the chunk just handled, and then sent, is res
\* with FAILED_SequenceError, and next_state is Terminate
NegativeResponse(res) ==
    /\ pc \in AfterProcessing
    /\ (pc # "done" =>
           /\ current_state.next_state = "Terminate"
           /\ current_state.next_v2gtp_msg.stagedAt = nrecv
           /\ current_state.next_v2gtp_msg.body = res
           /\ current_state.next_v2gtp_msg.code = "FAILED_SequenceError")
    /\ (pc # "processed" =>
           /\ SentDuring(nrecv) = {Len(wire)}
           /\ wire[Len(wire)].frame.stagedAt = nrecv
           /\ wire[Len(wire)].frame.body = res
           /\ wire[Len(wire)].frame.code = "FAILED_SequenceError")

\* C14 as stated: a ServiceDiscoveryReq received in state SessionSetup of an
\* ISO 15118-2 session is answered with a SessionSetupRes that carries
\* FAILED_SequenceError, and next_state becomes Terminate.
C14_SessionSetupRes ==
    OutOfOrder => NegativeResponse("SessionSetupResV2")

\* C14 amended: a ServiceDiscoveryReq received in state SessionSetup of an
\* ISO 15118-2 session is answered with the response of the request that
\* came in, a ServiceDiscoveryRes, carrying FAILED_SequenceError, and
\* next_state becomes Terminate.
C14_ServiceDiscoveryRes ==
    OutOfOrder => NegativeResponse("ServiceDiscoveryResV2")

\* the state SessionSetup has answered a ServiceDiscoveryReq and the loop
\* has ended
C14_Witness ==
    /\ OutOfOrder
    /\ pc = "done"
    /\ wire[Len(wire)].sentAt = nrecv
    /\ wire[Len(wire)].frame.body = "ServiceDiscoveryResV2"

\* every occurrence of step a in stop_log is before every occurrence of b
Precedes(a, b) ==
    \A i, j \in 1..Len(stop_log) :
        (stop_log[i] = a /\ stop_log[j] = b) => i < j

Logged(a) == \E i \in 1..Len(stop_log) : stop_log[i] = a

\* C15: stop() calls save_session_info before the first delay when
\* next_state is Pause and does not call it otherwise; the data link is
\* signalled after the first delay and before the second; the writer is
\* closed only after both delays.
C15_StopOrdering ==
    /\ Precedes("save_session_info", "sleep_2")
    /\ Precedes("sleep_2", "data_link")
    /\ Precedes("data_link", "sleep_3")
    /\ Precedes("sleep_3", "close")
    /\ Logged("sleep_3") => Logged("data_link")
    /\ writer_closed <=> Logged("close")
    /\ writer_closed => (Logged("sleep_2") /\ Logged("sleep_3"))
    /\ resumes = 0 =>
          /\ (pc \in Stopping /\ current_state.next_state = "Pause") =>
                 (save_calls >= 1 /\ stop_log[1] = "save_session_info")
          /\ current_state.next_state # "Pause" =>
                 (save_calls = 0 /\ ~Logged("save_session_info"))

\* a session that was paused has run stop() to its end
C15_Witness ==
    /\ pc = "done"
    /\ resumes = 0
    /\ current_state.next_state = "Pause"
    /\ stop_log = <<"save_session_info", "sleep_2", "data_link", "sleep_3",
                    "close">>

\* the positions of the session task inside start(): rcv_loop is running
Running ==
    {"read", "processed", "drain", "stop_sleep_2", "stop_sleep_3",
     "stop_wait_closed"}

\* C16: the started flag is false for a session that is constructed and not
\* yet started, true while rcv_loop runs, and false once start() has
\* returned or raised.
C16_StartedFlag ==
    started <=> pc \in Running

\* C17: when check_msg has returned None, whatever kind the decoded message
\* is of, stop_state_machine has set next_state to Terminate, staged a
\* negative response and recorded a failed stop_reason; its arm without a
\* response is not the one taken.
C17_CheckMsgNull ==
    (pc = "processed" /\ iter.check \in {"wire_variant", "body_type", "session_id"}) =>
        /\ iter.arm \in {"isov2", "isov20", "sap"}
        /\ current_state.next_state = "Terminate"
        /\ current_state.next_v2gtp_msg # NoFrame
        /\ current_state.next_v2gtp_msg.stagedAt = nrecv
        /\ stop_reason.set /\ ~stop_reason.successful

\* the handler of the current state was invoked for the chunk read last and
\* returned, having neither staged a message for that chunk nor set
\* next_state to Terminate
NothingStaged ==
    /\ resumes = 0
    /\ iter.handler
    /\ iter.exc = "none"
    /\ current_state.next_v2gtp_msg.stagedAt # nrecv
    /\ current_state.next_state # "Terminate"

\* C18: when the handler returns having neither staged a message for the
\* message just handled nor set next_state to Terminate, process_message
\* raises FaultyStateImplementationError; the loop sends no frame, sets a
\* failed stop_reason and ends.
C18_FaultyState ==
    NothingStaged =>
        /\ pm = "FaultyStateImplementationError"
        /\ pc \in {"processed"} \cup Stopping
        /\ SentDuring(nrecv) = {}
        /\ (pc # "processed" =>
               /\ exit_path = "error"
               /\ stop_reason.set /\ ~stop_reason.successful)

\* the body type of the message of the call is the first element of
\* expected_msg_types, is an element of it
IsFirst ==
    /\ call.expected_msg_types # <<>>
    /\ call.expected_msg_types[1] = call.message.body

IsListed ==
    \E i \in 1..Len(call.expected_msg_types) :
        call.expected_msg_types[i] = call.message.body

\* C19: of the messages of the expected wire variant, and for every list
\* expected_msg_types, the empty one included, check_msg with expect_first
\* accepts the body type only if it is the first element of the list, and
\* without expect_first accepts it if and only if it is an element of the
\* list; a message rejected for its body type gets FAILED_SequenceError.
C19_BodyTypeRule ==
    (call.fn = "check_msg" /\ call.message.kind = call.expected_return_type) =>
        /\ call.expect_first =>
              (call.result.failed # "body_type" => IsFirst)
        /\ ~call.expect_first =>
              (call.result.failed # "body_type" <=> IsListed)
        /\ call.result.ok => IsListed
        /\ call.result.failed = "body_type" =>
              /\ call.result.code.name = "FAILED_SequenceError"
              /\ stop_reason.set /\ ~stop_reason.successful
              /\ current_state.next_v2gtp_msg # NoFrame =>
                    current_state.next_v2gtp_msg.code = "FAILED_SequenceError"

\* with expect_first, a body type that is in the list but not its first
\* element was rejected
C19_Witness ==
    /\ call.fn = "check_msg"
    /\ call.message.kind = call.expected_return_type
    /\ call.expect_first
    /\ Len(call.expected_msg_types) = 2
    /\ call.expected_msg_types[2] = call.message.body
    /\ call.result.failed = "body_type"
    /\ current_state.next_v2gtp_msg.code = "FAILED_SequenceError"

\* the body type passes the body-type rule of the call
BodyTypeExpected == IF call.expect_first THEN IsFirst ELSE IsListed

\* C20: check_msg tests the wire variant, then the body type, then the
\* session id, and reports the first test that fails: a message of an
\* unexpected wire variant or body type that also carries another session
\* id than the stored one gets FAILED_SequenceError, not
\* FAILED_UnknownSession; stop_state_machine is called once by a check_msg
\* call that fails (and not by one that succeeds).
C20_FirstFailureOnly ==
    call.fn = "check_msg" =>
        /\ call.result.failed = "wire_variant" <=>
              call.message.kind # call.expected_return_type
        /\ call.result.failed = "body_type" <=>
              /\ call.message.kind = call.expected_return_type
              /\ ~BodyTypeExpected
        /\ call.result.failed = "session_id" =>
              /\ call.message.kind = call.expected_return_type
              /\ BodyTypeExpected
              /\ call.message.session_id # session_id
        /\ ( /\ \/ call.message.kind # call.expected_return_type
                \/ ~BodyTypeExpected
             /\ call.message.session_id # session_id ) =>
              /\ call.result.code.name = "FAILED_SequenceError"
              /\ current_state.next_v2gtp_msg.code # "FAILED_UnknownSession"
        /\ call.result.stops = (IF call.result.ok THEN 0 ELSE 1)
        /\ call.result.ok <=> ~stop_reason.set

\* a request of an unexpected body type with another session id than the
\* stored one was answered with FAILED_SequenceError
C20_Witness ==
    /\ call.fn = "check_msg"
    /\ call.message.kind = call.expected_return_type
    /\ call.message.body = "ServiceDiscoveryReqV2"
    /\ ~IsListed
    /\ session_id # ""
    /\ call.message.session_id # session_id
    /\ call.result.failed = "body_type"
    /\ current_state.next_state = "Terminate"
    /\ current_state.next_v2gtp_msg.code = "FAILED_SequenceError"

\* the rest of an iteration once the staged message, if any, is sent: the
\* stop on Terminate or Pause, else the next read with the next_msg_timeout
\* of the state that handled the message
IterationEnd ==
    IF current_state.next_state \in {"Terminate", "Pause"}
    THEN /\ pc' = "stop_sleep_2"
         /\ stop_reason'.set
         /\ wire' = wire
         /\ nrecv' = nrecv
    ELSE /\ pc' = "read"
         /\ timeout' = current_state.next_msg_timeout
         /\ wire' = wire
         /\ stop_log' = stop_log
         /\ queue' = queue

\* C21: in an iteration whose process_message returned, a staged
\* next_v2gtp_msg is sent first; then, on Terminate or Pause, the loop runs
\* the stop, puts the session's stop_reason on the queue and reads no more;
\* otherwise the budget of the next read is the next_msg_timeout of the
\* state that handled the message and the loop reads again.
C21_Iteration ==
    [][/\ (pc = "processed" /\ pm = "returned"
              /\ current_state.next_v2gtp_msg # NoFrame) =>
             /\ pc' = "drain"
             /\ wire' = Append(wire, [frame |-> current_state.next_v2gtp_msg,
                                      sentAt |-> nrecv])
             /\ stop_log' = stop_log
             /\ timeout' = timeout
       /\ (pc = "processed" /\ pm = "returned"
              /\ current_state.next_v2gtp_msg = NoFrame) => IterationEnd
       /\ pc = "drain" => IterationEnd
       /\ pc \in Stopping => (pc' \in Stopping /\ nrecv' = nrecv /\ wire' = wire)
       /\ (pc = "stop_wait_closed" /\ pm = "returned"
              /\ exit_path \in {"terminate_pause", "attribute_value_error"}) =>
             (pc' = "done" /\ writer_closed /\ queue' = <<stop_reason>>)
      ]_vars

\* a first message was answered and the loop read again with the budget of
\* the state; the answer to the second was sent and the loop stopped
C21_Witness ==
    /\ pc = "done"
    /\ pm = "returned"
    /\ exit_path = "terminate_pause"
    /\ nrecv = 2
    /\ Len(wire) = 2
    /\ wire[2].sentAt = 2
    /\ timeout = StateTimeout
    /\ queue = <<stop_reason>>

\* the eight namespaces
Namespaces ==
    {"SAP", "ISO_V2_MSG_DEF", "DIN_MSG_BODY", "ISO_V20_COMMON_MSG",
     "ISO_V20_AC", "ISO_V20_DC", "ISO_V20_WPT", "ISO_V20_ACDP"}

\* C22: get_exi_ns returns SAP for protocol UNKNOWN, ISO_V2_MSG_DEF for
\* ISO_15118_2 and DIN_MSG_BODY for DIN_SPEC_70121, whatever the current
\* state is, and for every protocol and state one of the eight namespaces.
C22_ProtocolNamespace ==
    call.fn = "get_exi_ns" =>
        /\ call.result \in Namespaces
        /\ protocol = "UNKNOWN" => call.result = "SAP"
        /\ protocol = "ISO_15118_2" => call.result = "ISO_V2_MSG_DEF"
        /\ protocol = "DIN_SPEC_70121" => call.result = "DIN_MSG_BODY"

\* the namespace of an ISO 15118-2 session was asked for while the current
\* state has a name that starts with ACDP
C22_Witness ==
    /\ call.fn = "get_exi_ns"
    /\ protocol = "ISO_15118_2"
    /\ startswith(Letters(current_state.name), <<"A", "C", "D", "P">>)
    /\ call.result = "ISO_V2_MSG_DEF"

\* C23: no frame is sent twice: every frame sent after chunk n was read was
\* staged while chunk n was handled; a next_v2gtp_msg left over from an
\* earlier chunk does not satisfy the post-condition of process_message and
\* is not sent again when the handler stages nothing.
C23_NoResend ==
    /\ \A i, j \in 1..Len(wire) : i < j => wire[i].frame # wire[j].frame
    /\ \A i \in 1..Len(wire) : wire[i].frame.stagedAt = wire[i].sentAt
    /\ (/\ pc = "processed"
        /\ iter.handler /\ iter.exc = "none"
        /\ current_state.next_v2gtp_msg # NoFrame
        /\ current_state.next_v2gtp_msg.stagedAt # nrecv
        /\ current_state.next_state # "Terminate") => pm # "returned"

\* the response code enum of the protocol a response message belongs to
CodeFamily(body) ==
    CASE body = "SupportedAppProtocolRes" -> "ResponseCodeSAP"
      [] body \in {"SessionSetupResV2", "ServiceDiscoveryResV2"} -> "ResponseCodeV2"
      [] body \in {"SessionSetupResV20", "AuthorizationSetupResV20"} -> "ResponseCodeV20"
      [] OTHER -> "None"

\* C24: the response code that stop_state_machine sets on the response it
\* stages for a failed check_msg is a member of the response code enum of
\* that response: a SAP code on a SupportedAppProtocolRes, an ISO 15118-2
\* code on an ISO 15118-2 response, an ISO 15118-20 code on an ISO 15118-20
\* response.
C24_CodeFamily ==
    (call.fn = "check_msg" /\ ~call.result.ok
        /\ current_state.next_v2gtp_msg # NoFrame) =>
        current_state.next_v2gtp_msg.family =
            CodeFamily(current_state.next_v2gtp_msg.body)

\* the number of times step a of stop() was performed
Times(a) == Cardinality({i \in 1..Len(stop_log) : stop_log[i] = a})

\* C25: in one run of the receive loop stop() is performed at most once,
\* and when the session ends with next_state = Pause, save_session_info is
\* called exactly once, whether or not the state set a stop_reason and
\* whether or not it staged a message.
C25_StopOnce ==
    /\ \A a \in {"save_session_info", "sleep_2", "data_link", "sleep_3", "close"} :
          Times(a) <= 1
    /\ save_calls <= 1
    /\ (resumes = 0 /\ pc \in Stopping /\ current_state.next_state = "Pause") =>
          save_calls = 1

\* C26: every item the loop puts on the queue is a StopNotification, not
\* None, also when the state ended the session without setting stop_reason,
\* and an item is put on the queue only when the writer has been closed.
C26_QueueItems ==
    [][queue' # queue =>
          /\ writer_closed
          /\ Len(queue') = Len(queue) + 1
          /\ SubSeq(queue', 1, Len(queue)) = queue
          /\ queue'[Len(queue')].set
          /\ \A i \in 1..Len(queue) : queue[i].set]_vars

\* a state ended the session without setting stop_reason; the loop has
\* closed the writer and put a notification on the queue
C26_Witness ==
    /\ pc = "done"
    /\ pm = "returned"
    /\ exit_path = "attribute_value_error"
    /\ writer_closed
    /\ Len(queue) = 1
    /\ queue[1] = StopNotification(FALSE, "AttributeError")

====
